---- MODULE Spec2Model ----
(***************************************************************************)
(* The CMOS inverter script src/sim.py as a state machine.                 *)
(*                                                                         *)
(* The script is a straight line of library calls: it builds a netlist     *)
(* (lines 6-26), creates a simulator and runs one transient analysis       *)
(* (lines 29-30), and plots and saves the result (lines 33-42).  There is  *)
(* no try/except, no loop and no branch, so every statement either returns *)
(* and control moves to the next statement, or raises and the run ends.    *)
(*                                                                         *)
(* Units: time in picoseconds, voltage in millivolts, so that the          *)
(* literals of the script (0.1 ns, 1 ns, 5 V, ...) are integers.           *)
(***************************************************************************)
EXTENDS Integers, Sequences, FiniteSets, TLC

VARIABLES
    pc,         \* the statement about to run: "l<line>", or "done" / "failed"
    circuit,    \* the Circuit object: title, elements, models
    simulator,  \* the simulator object of line 29, << >> until created
    analysis,   \* the result of line 30, << >> until the call has returned
    figure,     \* the pyplot figure state
    files,      \* the files the run has written: name -> size in bytes
    failedAt,   \* the statement that raised, "none" if none did
    executed,   \* history: the statements started so far, in order
    simCalls,   \* history: how many times simulator.transient was invoked
    writes,     \* history: how many times a file was opened for writing
    uses,       \* history: the statements that referenced the circuit
    vsrc        \* the programmed value of the input source, sampled per step

vars == <<pc, circuit, simulator, analysis, figure, files, failedAt,
          executed, simCalls, writes, uses, vsrc>>

scriptVars == <<pc, circuit, simulator, analysis, figure, files, failedAt,
                executed, simCalls, writes, uses>>

----------------------------------------------------------------------------
(* Bounds of the model: the external results the script does not control.  *)

\* how many different recordings the external simulator may return
MaxRecordings == 4
\* the largest size, in bytes, of the image file the plotting library writes
MaxBytes == 2

Recordings == 1..MaxRecordings

----------------------------------------------------------------------------
(* The literals of the script.                                             *)

\* line 30: step_time=0.1@u_ns
StepTime == 100
\* line 30: end_time=50@u_ns
EndTime == 50000

\* line 41
ImageName == "inverter_output.png"

\* line 9: circuit.V('dd', 'vdd', circuit.gnd, 5@u_V)
Vdd ==
    [name |-> "Vdd", kind |-> "V", nodes |-> <<"vdd", "0">>, dc |-> 5000]

\* lines 12-15: circuit.PulseVoltageSource('input', 'vin', circuit.gnd, ...)
\* delay_time is not passed, so the source starts at t = 0.
InputSource ==
    [name |-> "Vinput", kind |-> "PULSE", nodes |-> <<"vin", "0">>,
     initial_value |-> 0, pulsed_value |-> 5000,
     pulse_width |-> 5000, period |-> 10000,
     rise_time |-> 1000, fall_time |-> 1000, delay_time |-> 0]

\* line 18: the PMOS device, length 180 nm, width 10 um (in nm)
M1 ==
    [name |-> "M1", kind |-> "MOSFET",
     nodes |-> <<"out", "vin", "vdd", "vdd">>,
     model |-> "PMOS", length |-> 180, width |-> 10000]

\* line 19: the NMOS device
M2 ==
    [name |-> "M2", kind |-> "MOSFET",
     nodes |-> <<"out", "vin", "0", "0">>,
     model |-> "NMOS", length |-> 180, width |-> 10000]

\* line 22: circuit.C(1, 'out', circuit.gnd, 1@u_pF), in fF
C1 ==
    [name |-> "C1", kind |-> "C", nodes |-> <<"out", "0">>,
     capacitance |-> 1000]

\* line 25: circuit.model('NMOS', 'NMOS')
NmosModel == [name |-> "NMOS", type |-> "NMOS"]

\* line 26: circuit.model('PMOS', 'PMOS', pmos=True)
PmosModel == [name |-> "PMOS", type |-> "PMOS", pmos |-> TRUE]

----------------------------------------------------------------------------
(* Control: the statements of the script in source order.                  *)

Program ==
    <<"l6", "l9", "l12", "l18", "l19", "l22", "l25", "l26",
      "l29", "l30",
      "l33", "l34", "l35", "l36", "l37", "l38", "l39", "l40", "l41", "l42">>

BuildLines == {"l6", "l9", "l12", "l18", "l19", "l22", "l25", "l26"}
SimLines   == {"l29", "l30"}
PlotLines  == {"l33", "l34", "l35", "l36", "l37", "l38", "l39", "l40",
               "l41", "l42"}

IndexOf(l) == CHOOSE i \in 1..Len(Program) : Program[i] = l

\* A mutation: show (line 42) is called before savefig (line 41).
SuccShowBeforeSave(l) ==
    CASE l = "l40" -> "l42"
      [] l = "l42" -> "l41"
      [] l = "l41" -> "done"
      [] OTHER -> Program[IndexOf(l) + 1]

\* A mutation: the plotting stage is followed by a second transient call.
SuccResimulate(l) ==
    IF l = "l42" THEN "l30"
    ELSE Program[IndexOf(l) + 1]

\* The statement that runs after statement l has returned.
Succ(l) ==
    IF IndexOf(l) = Len(Program) THEN "done"
    ELSE Program[IndexOf(l) + 1]

\* Statement l starts.
Exec(l) ==
    /\ pc = l
    /\ executed' = Append(executed, l)

\* Statement l returns: control moves to the next statement.
Returns(l) ==
    /\ pc' = Succ(l)
    /\ failedAt' = failedAt

\* A mutation: the exception is swallowed (try/except: pass) and the run
\* carries on with the next statement.
RaisesSwallowed(l) ==
    /\ pc' = Succ(l)
    /\ failedAt' = l

\* Statement l raises: nothing catches it, the run ends.
Raises(l) ==
    /\ pc' = "failed"
    /\ failedAt' = l

----------------------------------------------------------------------------
(* The state after the imports, before line 6.                             *)

NoFigure ==
    [created |-> FALSE, curves |-> << >>, title |-> "", xlabel |-> "",
     ylabel |-> "", grid |-> FALSE, legend |-> FALSE]

Init ==
    /\ pc = "l6"
    /\ circuit = [title |-> "", elements |-> {}, models |-> {}]
    /\ simulator = << >>
    /\ analysis = << >>
    /\ figure = NoFigure
    /\ files = << >>
    /\ failedAt = "none"
    /\ executed = << >>
    /\ simCalls = 0
    /\ writes = 0
    /\ uses = {}
    /\ vsrc = << >>

----------------------------------------------------------------------------
(* Stage 1: netlist assembly, lines 6-26.                                  *)

AddElement(c, e) == [c EXCEPT !.elements = @ \cup {e}]

AddModel(c, m) == [c EXCEPT !.models = @ \cup {m}]

\* A netlist statement: it references the circuit, and either declares
\* its part or raises (malformed parameters) leaving the circuit as it was.
Declare(l, c) ==
    /\ Exec(l)
    /\ uses' = uses \cup {l}
    /\ \/ Returns(l) /\ circuit' = c
       \/ Raises(l) /\ circuit' = circuit
    /\ UNCHANGED <<simulator, analysis, figure, files, simCalls, writes, vsrc>>

L6  == Declare("l6", [title |-> "CMOS Inverter", elements |-> {}, models |-> {}])
L9  == Declare("l9", AddElement(circuit, Vdd))
L12 == Declare("l12", AddElement(circuit, InputSource))
L18 == Declare("l18", AddElement(circuit, M1))
L19 == Declare("l19", AddElement(circuit, M2))
L22 == Declare("l22", AddElement(circuit, C1))
L25 == Declare("l25", AddModel(circuit, NmosModel))
L26 == Declare("l26", AddModel(circuit, PmosModel))

----------------------------------------------------------------------------
(* Stage 2: the external simulator, lines 29-30.                           *)

\* A mutation: creating the simulator adds an element to the circuit.
L29Mutating ==
    /\ Exec("l29")
    /\ uses' = uses \cup {"l29"}
    /\ Returns("l29")
    /\ circuit' = AddElement(circuit, [name |-> "Rprobe", kind |-> "R"])
    /\ simulator' = <<[circuit |-> circuit', temperature |-> 25,
                       nominal_temperature |-> 25]>>
    /\ UNCHANGED <<analysis, figure, files, simCalls, writes, vsrc>>

\* line 29: simulator = circuit.simulator(temperature=25, nominal_temperature=25)
\* The simulator object holds the circuit it was created from.
L29 ==
    /\ Exec("l29")
    /\ uses' = uses \cup {"l29"}
    /\ \/ /\ Returns("l29")
          /\ simulator' = <<[circuit |-> circuit, temperature |-> 25,
                             nominal_temperature |-> 25]>>
       \/ /\ Raises("l29")
          /\ simulator' = simulator
    /\ UNCHANGED <<circuit, analysis, figure, files, simCalls, writes, vsrc>>

\* line 30: analysis = simulator.transient(step_time=0.1@u_ns, end_time=50@u_ns)
\* One blocking call of the external engine on the simulator's circuit: it
\* returns one of the recordings the engine can produce, or raises.
L30 ==
    /\ Exec("l30")
    /\ uses' = uses \cup {"l30"}
    /\ simCalls' = simCalls + 1
    /\ \/ /\ Returns("l30")
          /\ \E r \in Recordings :
                analysis' = <<[recording |-> r, step_time |-> StepTime,
                               end_time |-> EndTime]>>
       \/ /\ Raises("l30")
          /\ analysis' = analysis
    /\ UNCHANGED <<circuit, simulator, figure, files, writes, vsrc>>

----------------------------------------------------------------------------
(* Stage 3: plotting, lines 33-42.                                         *)

\* A plotting statement: it changes the figure, or raises leaving it as is.
\* None of them references the circuit or the simulator.
Plot(l, fig) ==
    /\ Exec(l)
    /\ \/ Returns(l) /\ figure' = fig
       \/ Raises(l) /\ figure' = figure
    /\ UNCHANGED <<circuit, simulator, analysis, files, simCalls, writes,
                   uses, vsrc>>

\* plt.plot(analysis.time, analysis[signal], label=...)
Curve(signal, label) ==
    [x |-> <<analysis[1].recording, "time">>,
     y |-> <<analysis[1].recording, signal>>,
     label |-> label]

L33 == Plot("l33", [NoFigure EXCEPT !.created = TRUE])
L34 == Plot("l34", [figure EXCEPT
                      !.curves = Append(@, Curve("vin", "Input (vin)"))])
L35 == Plot("l35", [figure EXCEPT
                      !.curves = Append(@, Curve("out", "Output (out)"))])
L36 == Plot("l36", [figure EXCEPT !.title = "CMOS Inverter Simulation"])
L37 == Plot("l37", [figure EXCEPT !.xlabel = "Time [s]"])
L38 == Plot("l38", [figure EXCEPT !.ylabel = "Voltage [V]"])
L39 == Plot("l39", [figure EXCEPT !.grid = TRUE])
L40 == Plot("l40", [figure EXCEPT !.legend = TRUE])

\* A mutation: the waveform data is dumped to a second file as well.
WriteFileAndData(fs, name, bytes) ==
    (name :> bytes) @@ ("waveform.csv" :> bytes) @@ fs

\* The file system after `bytes` bytes have been written to file `name`.
WriteFile(fs, name, bytes) == (name :> bytes) @@ fs

\* line 41: plt.savefig('inverter_output.png', dpi=300)
\* The rendered image is never empty.  A call that raises has either not
\* opened the file or left a truncated one.
L41 ==
    /\ Exec("l41")
    /\ \/ /\ Returns("l41")
          /\ \E b \in 1..MaxBytes : files' = WriteFile(files, ImageName, b)
          /\ writes' = writes + 1
       \/ /\ Raises("l41")
          /\ files' = files
          /\ writes' = writes
       \/ /\ Raises("l41")
          /\ \E b \in 0..(MaxBytes - 1) : files' = WriteFile(files, ImageName, b)
          /\ writes' = writes + 1
    /\ UNCHANGED <<circuit, simulator, analysis, figure, simCalls, uses, vsrc>>

\* line 42: plt.show()
\* The interactive display blocks; this step is its return (or its raising).
\* Nothing forces it to happen.
L42 ==
    /\ Exec("l42")
    /\ \/ Returns("l42")
       \/ Raises("l42")
    /\ UNCHANGED <<circuit, simulator, analysis, figure, files, simCalls,
                   writes, uses, vsrc>>

----------------------------------------------------------------------------

Next ==
    \/ L6 \/ L9 \/ L12 \/ L18 \/ L19 \/ L22 \/ L25 \/ L26
    \/ L29 \/ L30
    \/ L33 \/ L34 \/ L35 \/ L36 \/ L37 \/ L38 \/ L39 \/ L40 \/ L41 \/ L42

Spec == Init /\ [][Next]_vars

----------------------------------------------------------------------------
(* The programmed input source of lines 12-15, as a function of time.      *)
(* A pulse source is at initial_value until delay_time, then repeats every *)
(* period: a linear rise over rise_time, pulsed_value for pulse_width, a   *)
(* linear fall over fall_time, and initial_value for the rest.             *)

\* A mutation: pulse_width is taken as the time to the falling edge's end,
\* measured from the start of the period (rise and fall included in it).
PulseValueWidthFromStart(src, t) ==
    IF t < src.delay_time THEN src.initial_value
    ELSE
        LET ph == (t - src.delay_time) % src.period
            dv == src.pulsed_value - src.initial_value
            w  == src.pulse_width - src.rise_time - src.fall_time
        IN  IF ph < src.rise_time
                THEN src.initial_value + (dv * ph) \div src.rise_time
            ELSE IF ph <= src.rise_time + w
                THEN src.pulsed_value
            ELSE IF ph < src.pulse_width
                THEN src.pulsed_value
                     - (dv * (ph - src.rise_time - w)) \div src.fall_time
            ELSE src.initial_value

PulseValue(src, t) ==
    IF t < src.delay_time THEN src.initial_value
    ELSE
        LET ph == (t - src.delay_time) % src.period
            dv == src.pulsed_value - src.initial_value
        IN  IF ph < src.rise_time
                THEN src.initial_value + (dv * ph) \div src.rise_time
            ELSE IF ph <= src.rise_time + src.pulse_width
                THEN src.pulsed_value
            ELSE IF ph < src.rise_time + src.pulse_width + src.fall_time
                THEN src.pulsed_value
                     - (dv * (ph - src.rise_time - src.pulse_width))
                       \div src.fall_time
            ELSE src.initial_value

\* The time of the k-th point of the step grid of line 30 (k = 1 is t = 0).
GridTime(k) == (k - 1) * StepTime

\* The value of the source declared on lines 12-15 is taken at the next
\* point of the step grid, up to end_time.
SamplePulse ==
    /\ GridTime(Len(vsrc) + 1) <= EndTime
    /\ vsrc' = Append(vsrc, PulseValue(InputSource, GridTime(Len(vsrc) + 1)))
    /\ UNCHANGED scriptVars

NextPulse == SamplePulse

SpecPulse == Init /\ [][NextPulse]_vars

----------------------------------------------------------------------------
(* Properties.                                                             *)

\* The netlist the script declares: five elements and two device models.
FullNetlist ==
    [title |-> "CMOS Inverter",
     elements |-> {Vdd, InputSource, M1, M2, C1},
     models |-> {NmosModel, PmosModel}]

IsPrefix(s, t) ==
    /\ Len(s) <= Len(t)
    /\ \A i \in 1..Len(s) : s[i] = t[i]

Started(l) == \E i \in 1..Len(executed) : executed[i] = l

\* The parts of C1 that do not count the elements: the statements run in
\* source order, the transient analysis is invoked at most once and exactly
\* once in a run that reaches the plotting stage, and nothing is plotted or
\* saved before that call has returned a recording.
C1_Order ==
    /\ IsPrefix(executed, Program)
    /\ simCalls <= 1
    /\ (\E l \in PlotLines : Started(l) \/ pc = l) => simCalls = 1
    /\ (pc = "done") => simCalls = 1
    /\ (figure # NoFigure \/ files # << >> \/ writes > 0
          \/ (\E l \in PlotLines : Started(l)))
         => /\ analysis # << >>
            /\ failedAt \notin BuildLines \cup SimLines

\* C1 as stated: when the simulator is created or invoked, the netlist holds
\* six elements and both models; the transient analysis is invoked once; no
\* plotting or saving precedes its successful return.
C1_Original ==
    /\ (simulator # << >> \/ simCalls >= 1 \/ Started("l29"))
         => /\ Cardinality(circuit.elements) = 6
            /\ Cardinality(circuit.models) = 2
    /\ C1_Order

\* C1, amended: the run is strictly sequential in source order; whenever the
\* simulator is created or invoked the netlist is fully built, which is all
\* FIVE elements (supply, pulse source, two MOSFETs, load capacitor) and both
\* models; the transient analysis is invoked at most once, exactly once in a
\* run that reaches the plotting stage; and no plotting or file-saving step
\* happens before that call has returned a recording.
C1_Theorem ==
    /\ (simulator # << >> \/ simCalls >= 1 \/ Started("l29"))
         => /\ circuit = FullNetlist
            /\ Cardinality(circuit.elements) = 5
            /\ Cardinality(circuit.models) = 2
    /\ (simulator # << >>) => simulator[1].circuit = FullNetlist
    /\ C1_Order

C1_Witness ==
    /\ pc = "done"
    /\ simCalls = 1
    /\ analysis # << >>
    /\ Len(figure.curves) = 2
    /\ ImageName \in DOMAIN files

\* C2: if a netlist statement or a simulator statement raises, the run is in
\* the failed state with that statement the last one started; nothing can run
\* after it; the transient analysis was invoked at most once (not at all when
\* the failure came before it); there is no recording, no plotting statement
\* has run, the figure is untouched and no file has been written.
C2_Theorem ==
    /\ (failedAt \in BuildLines \cup SimLines)
         => /\ pc = "failed"
            /\ executed # << >>
            /\ executed[Len(executed)] = failedAt
            /\ simCalls = (IF failedAt = "l30" THEN 1 ELSE 0)
            /\ analysis = << >>
            /\ \A l \in PlotLines : ~Started(l)
            /\ figure = NoFigure
            /\ files = << >>
            /\ writes = 0
    /\ (failedAt # "none") => pc = "failed"
    /\ (pc = "failed") => (failedAt # "none" /\ ~ENABLED Next)

C2_Witness ==
    /\ failedAt = "l30"
    /\ pc = "failed"
    /\ simCalls = 1

C9_Theorem ==
    /\ DOMAIN files \subseteq {"inverter_output.png"}
    /\ writes <= 1
    /\ (files # << >>) => writes = 1

C9_Witness ==
    /\ pc \in {"done", "failed"}
    /\ DOMAIN files = {"inverter_output.png"}
    /\ writes = 1

----------------------------------------------------------------------------
(* The input waveform, under SpecPulse.                                    *)

\* The waveform C10 describes, in ps and mV: in each 10 ns period a ramp
\* from 0 V to 5 V over the first 1 ns, 5 V for 5 ns, a ramp back over the
\* next 1 ns, 0 V for the remaining 3 ns.
ClaimedVin(t) ==
    LET ph == t % 10000
    IN  IF ph <= 1000 THEN 5 * ph
        ELSE IF ph <= 6000 THEN 5000
        ELSE IF ph <= 7000 THEN 5000 - 5 * (ph - 6000)
        ELSE 0

RisingStarts(w) ==
    Cardinality({k \in 1..(Len(w) - 1) : w[k] = 0 /\ w[k + 1] > 0})

FallingEnds(w) ==
    Cardinality({k \in 1..(Len(w) - 1) : w[k] > 0 /\ w[k + 1] = 0})

SamplesAt(w, v) == Cardinality({k \in 1..Len(w) : w[k] = v})

====
